---------------------------- MODULE Spec2Model ----------------------------
(***************************************************************************)
(* The upstream tree cache and the model/version index of                  *)
(* src/server/app.py: _cache, _fetch_tree, _build_model_versions,          *)
(* _is_valid_model_version and the routes that call them.                  *)
(*                                                                         *)
(* Python values are written as follows.  A str is a sequence of           *)
(* one-character strings.  An optional value is a sequence of length 0     *)
(* (None) or 1 (the value).  A list is a sequence, a dict a function, a    *)
(* set a set.                                                              *)
(***************************************************************************)
EXTENDS Integers, Sequences, FiniteSets, TLC

\* ------------------------------------------------------------------------
\* Python values
\* ------------------------------------------------------------------------

None == <<>>

Some(x) == <<x>>

\* bool(x) of an optional list or optional str: None, [] and "" are falsy.
Truthy(opt) == opt # None /\ opt[1] # <<>>

\* Code points of the characters the model uses (str comparison and quote()).
Code(c) ==
  CASE c = " " -> 32 [] c = "%" -> 37 [] c = "-" -> 45 [] c = "." -> 46
    [] c = "/" -> 47 [] c = "_" -> 95 [] c = "~" -> 126
    [] c = "0" -> 48 [] c = "1" -> 49 [] c = "2" -> 50 [] c = "5" -> 53
    [] c = "9" -> 57 [] c = "A" -> 65 [] c = "B" -> 66 [] c = "G" -> 71
    [] c = "a" -> 97 [] c = "b" -> 98 [] c = "d" -> 100 [] c = "e" -> 101 [] c = "f" -> 102
    [] c = "g" -> 103 [] c = "h" -> 104 [] c = "i" -> 105 [] c = "l" -> 108
    [] c = "m" -> 109 [] c = "n" -> 110 [] c = "o" -> 111 [] c = "p" -> 112
    [] c = "r" -> 114
    [] c = "s" -> 115 [] c = "t" -> 116 [] c = "v" -> 118
    [] c = "x" -> 120

\* a < b for two str, as Python compares them: by code point, a proper
\* prefix first.
RECURSIVE StrLess(_, _)
StrLess(a, b) ==
  IF b = <<>> THEN FALSE
  ELSE IF a = <<>> THEN TRUE
  ELSE IF Head(a) = Head(b) THEN StrLess(Tail(a), Tail(b))
  ELSE Code(Head(a)) < Code(Head(b))

\* Mutant of Sorted: descending order.
RECURSIVE SortedDescending(_)
SortedDescending(S) ==
  IF S = {} THEN <<>>
  ELSE LET most == CHOOSE x \in S : \A y \in S \ {x} : StrLess(y, x)
       IN  <<most>> \o SortedDescending(S \ {most})

\* sorted(S) of a set of str.
RECURSIVE Sorted(_)
Sorted(S) ==
  IF S = {} THEN <<>>
  ELSE LET least == CHOOSE x \in S : \A y \in S \ {x} : StrLess(x, y)
       IN  <<least>> \o Sorted(S \ {least})

\* path.split("/"): the segments between the separators, empty ones kept.
RECURSIVE SplitFrom(_, _)
SplitFrom(s, cur) ==
  IF s = <<>> THEN <<cur>>
  ELSE IF Head(s) = "/" THEN <<cur>> \o SplitFrom(Tail(s), <<>>)
  ELSE SplitFrom(Tail(s), Append(cur, Head(s)))

Split(s) == SplitFrom(s, <<>>)

\* sub in s
Contains(s, sub) ==
  \E i \in 1..(Len(s) - Len(sub) + 1) : SubSeq(s, i, i + Len(sub) - 1) = sub

\* s.endswith(suf)
EndsWith(s, suf) ==
  Len(s) >= Len(suf) /\ SubSeq(s, Len(s) - Len(suf) + 1, Len(s)) = suf

\* urllib.parse.quote(s) with its default safe="/": letters, digits and
\* "_.-~" and "/" are kept, every other character becomes %XX.
HexDigit(n) ==
  <<"0", "1", "2", "3", "4", "5", "6", "7", "8", "9",
    "A", "B", "C", "D", "E", "F">>[n + 1]

QuoteChar(c) ==
  IF \/ (Code(c) >= 48 /\ Code(c) <= 57)
     \/ (Code(c) >= 65 /\ Code(c) <= 90)
     \/ (Code(c) >= 97 /\ Code(c) <= 122)
     \/ c \in {"_", ".", "-", "~", "/"}
  THEN <<c>>
  ELSE <<"%", HexDigit(Code(c) \div 16), HexDigit(Code(c) % 16)>>

RECURSIVE quote(_)
quote(s) == IF s = <<>> THEN <<>> ELSE QuoteChar(Head(s)) \o quote(Tail(s))

\* ------------------------------------------------------------------------
\* _build_model_versions
\* ------------------------------------------------------------------------

GenDir == <<"/", "g", "e", "n", "/">>

GenSegment == <<"g", "e", "n">>

HtmlExt == <<".", "h", "t", "m", "l">>

\* models.setdefault(model, set()).add(version)
SetDefaultAdd(models, model, version) ==
  IF model \in DOMAIN models
  THEN [models EXCEPT ![model] = @ \cup {version}]
  ELSE [m \in DOMAIN models \cup {model} |->
          IF m = model THEN {version} ELSE models[m]]

\* Mutant of Qualifies: "/gen/" anywhere in the path is enough.
QualifiesGenAnywhere(entry) ==
  /\ entry.type = "blob"
  /\ Contains(entry.path, GenDir)
  /\ Len(Split(entry.path)) >= 4
  /\ EndsWith(Split(entry.path)[Len(Split(entry.path))], HtmlExt)

\* The conditions under which the loop body reaches the last line for entry.
Qualifies(entry) ==
  /\ entry.type = "blob"
  /\ Contains(entry.path, GenDir)
  /\ LET parts == Split(entry.path)
     IN  /\ Len(parts) >= 4
         /\ parts[3] = GenSegment
         /\ EndsWith(parts[Len(parts)], HtmlExt)

\* One iteration of the loop over the tree.
IndexStep(models, entry) ==
  IF Qualifies(entry)
  THEN LET parts == Split(entry.path)
       IN  SetDefaultAdd(models, parts[1], parts[2])
  ELSE models

RECURSIVE IndexFrom(_, _)
IndexFrom(models, tree) ==
  IF tree = <<>> THEN models
  ELSE IndexFrom(IndexStep(models, Head(tree)), Tail(tree))

EmptyDict == [m \in {} |-> {}]

BuildModelVersions(tree) == IndexFrom(EmptyDict, tree)

\* ------------------------------------------------------------------------
\* sitemap: the list of urls
\* ------------------------------------------------------------------------

ModelsPrefix == <<"/", "m", "o", "d", "e", "l", "s", "/">>

VersionsInfix == <<"/", "v", "e", "r", "s", "i", "o", "n", "s", "/">>

RootUrl == <<"/">>

DiffUrl == <<"/", "d", "i", "f", "f">>

ModelUrl(model) == ModelsPrefix \o quote(model)

VersionUrl(model, version) ==
  ModelsPrefix \o quote(model) \o VersionsInfix \o quote(version)

\* The inner loop: one url per version, in sorted order.
RECURSIVE VersionUrls(_, _)
VersionUrls(model, versions) ==
  IF versions = <<>> THEN <<>>
  ELSE <<VersionUrl(model, Head(versions))>>
         \o VersionUrls(model, Tail(versions))

\* The outer loop over sorted(model_versions).
RECURSIVE ModelUrls(_, _)
ModelUrls(names, model_versions) ==
  IF names = <<>> THEN <<>>
  ELSE <<ModelUrl(Head(names))>>
         \o VersionUrls(Head(names), Sorted(model_versions[Head(names)]))
         \o ModelUrls(Tail(names), model_versions)

\* tree is what _fetch_tree returned: None or a list ("tree = tree or []").
SitemapUrls(tree) ==
  LET entries == IF Truthy(tree) THEN tree[1] ELSE <<>>
      model_versions == BuildModelVersions(entries)
  IN  <<RootUrl, DiffUrl>>
        \o ModelUrls(Sorted(DOMAIN model_versions), model_versions)

\* ------------------------------------------------------------------------
\* _is_valid_model_version, after the call of _fetch_tree has returned tree
\* ------------------------------------------------------------------------

\* Mutant of IsValidGiven: the version is not looked up.
IsValidWhateverVersion(tree, model, version) ==
  IF ~Truthy(tree) THEN TRUE
  ELSE model \in DOMAIN BuildModelVersions(tree[1])

\* model is a str, version an optional str, tree None or a list.
IsValidGiven(tree, model, version) ==
  IF ~Truthy(tree) THEN TRUE
  ELSE LET model_versions == BuildModelVersions(tree[1])
       IN  IF model \notin DOMAIN model_versions THEN FALSE
           ELSE IF Truthy(version) /\ version[1] \notin model_versions[model]
                THEN FALSE
           ELSE TRUE

\* ------------------------------------------------------------------------
\* The state
\* ------------------------------------------------------------------------

VARIABLES
  clock,     \* time.time()
  cache,     \* _cache: [timestamp, data]
  pc,        \* per request thread: the line of _fetch_tree it is about to run
  route,     \* per thread: the route being served and its arguments
  now,       \* per thread: the local now of _fetch_tree
  resp,      \* per thread: the response of requests.get, None before it
  ret,       \* per thread: what _fetch_tree returned, None before it returns
  out,       \* per thread: what the route returned
  reqs,      \* history: upstream requests issued by the thread's current call
  seen,      \* history: _cache as it was when the thread's call started
  obs,       \* history: the (timestamp, data) the fast path read, see Origin
  origin,    \* history: the now of the call that stored cache.data
  fetched,   \* history: the tree of the latest 200 response, None before it
  input,     \* IndexSpec: the tree handed to the pure functions
  index,     \* IndexSpec: _build_model_versions(input), None before the call
  urls       \* IndexSpec: the sitemap urls of input, None before the call

vars == <<clock, cache, pc, route, now, resp, ret, out, reqs, seen, obs,
          origin, fetched, input, index, urls>>

cacheVars == <<clock, cache, pc, route, now, resp, ret, out, reqs, seen, obs,
               origin, fetched>>

indexVars == <<input, index, urls>>

\* GITHUB_CACHE_TTL, here 2 ticks of the clock instead of the default 300.
CACHE_TTL == 2

\* The clock stops here.
MaxTime == 4

\* The request threads of the server.
Threads == {"t1", "t2"}

\* ------------------------------------------------------------------------
\* The upstream and the inputs
\* ------------------------------------------------------------------------

Blob(path) == [type |-> "blob", path |-> path]

\* "A/1/gen/x.html"
PathA1 == <<"A", "/", "1">> \o GenDir \o <<"x">> \o HtmlExt

\* "B/2/gen/d.png", which qualifies for nothing
PathPng == <<"B", "/", "2">> \o GenDir \o <<"d", ".", "p", "n", "g">>

\* The listings the upstream answers with: empty, one with model A version 1,
\* one without any qualifying entry.
Trees == {<<>>, <<Blob(PathA1), Blob(PathPng)>>, <<Blob(PathPng)>>}

\* A response of requests.get: status 200 with a tree, another status with a
\* JSON detail, or no response at all (status 0: requests.get raises).
OkResponse(tree) == [status |-> 200, tree |-> tree, detail |-> ""]

StatusResponse(status, detail) ==
  [status |-> status, tree |-> <<>>, detail |-> detail]

TransportFailure == [status |-> 0, tree |-> <<>>, detail |-> ""]

Responses ==
  {OkResponse(tree) : tree \in Trees}
    \cup {StatusResponse(403, "rate limit"), StatusResponse(500, "error")}
    \cup {TransportFailure}

\* The routes that reach _fetch_tree, with their arguments.
Routes ==
  {[op |-> "models", model |-> <<>>, version |-> None],
   [op |-> "sitemap", model |-> <<>>, version |-> None]}
    \cup {[op |-> "valid", model |-> m, version |-> v] :
            m \in {<<>>, <<"A">>, <<"B">>},
            v \in {None, Some(<<"1">>), Some(<<"2">>)}}

\* Mutant of FallbackToCache: models() asks for the fallback too.
FallbackToCacheAlways(r) == TRUE

\* models() calls _fetch_tree(); the others _fetch_tree(fallback_to_cache=True).
FallbackToCache(r) == r.op # "models"

Idle(t) == pc[t] \in {"idle", "done", "raised"}

\* ------------------------------------------------------------------------
\* Initial state
\* ------------------------------------------------------------------------

NoRoute == [op |-> "none", model |-> <<>>, version |-> None]

InitCache ==
  /\ clock = CACHE_TTL        \* time.time() is far beyond 0.0 + CACHE_TTL
  /\ cache = [timestamp |-> 0, data |-> None]
  /\ pc = [t \in Threads |-> "idle"]
  /\ route = [t \in Threads |-> NoRoute]
  /\ now = [t \in Threads |-> 0]
  /\ resp = [t \in Threads |-> None]
  /\ ret = [t \in Threads |-> None]
  /\ out = [t \in Threads |-> None]
  /\ reqs = [t \in Threads |-> 0]
  /\ seen = [t \in Threads |-> [timestamp |-> 0, data |-> None]]
  /\ obs = [t \in Threads |-> None]
  /\ origin = 0
  /\ fetched = None

Init ==
  /\ InitCache
  /\ input = <<>>
  /\ index = None
  /\ urls = None

\* ------------------------------------------------------------------------
\* The routes around _fetch_tree
\* ------------------------------------------------------------------------

\* The tuple _fetch_tree returns.
Result(tree, cached, error) ==
  [tree |-> tree, cached |-> cached, error |-> error]

\* models(): the JSON answer and its HTTP status.
ModelsAnswer(r) ==
  IF r.error # None
  THEN [status |-> r.error[1].status,
        body |-> [error |-> "GitHub API request failed",
                  status |-> r.error[1].status,
                  detail |-> r.error[1].detail]]
  ELSE [status |-> 200, body |-> [tree |-> r.tree, cached |-> r.cached]]

\* What the route makes of the tuple r that _fetch_tree returned.
RouteAnswer(rt, r) ==
  CASE rt.op = "models" -> ModelsAnswer(r)
    [] rt.op = "sitemap" -> SitemapUrls(r.tree)
    [] rt.op = "valid" -> IsValidGiven(r.tree, rt.model, rt.version)

\* _fetch_tree returns r to the route of thread t, which answers.
Return(t, r) ==
  /\ ret' = [ret EXCEPT ![t] = Some(r)]
  /\ out' = [out EXCEPT ![t] = Some(RouteAnswer(route[t], r))]
  /\ pc' = [pc EXCEPT ![t] = "done"]

\* Mutant of Call: the validator fetches the tree before it looks at model.
CallFetchFirst(t, rt) ==
  /\ Idle(t)
  /\ route' = [route EXCEPT ![t] = rt]
  /\ resp' = [resp EXCEPT ![t] = None]
  /\ reqs' = [reqs EXCEPT ![t] = 0]
  /\ obs' = [obs EXCEPT ![t] = None]
  /\ seen' = [seen EXCEPT ![t] = cache]
  /\ ret' = [ret EXCEPT ![t] = None]
  /\ out' = [out EXCEPT ![t] = None]
  /\ pc' = [pc EXCEPT ![t] = "L235"]
  /\ now' = [now EXCEPT ![t] = clock]
  /\ UNCHANGED <<clock, cache, origin, fetched>>

\* A request arrives on thread t.  _is_valid_model_version returns False for
\* an empty model at once; every other route calls _fetch_tree, which reads
\* the clock (line 234).
Call(t, rt) ==
  /\ Idle(t)
  /\ route' = [route EXCEPT ![t] = rt]
  /\ resp' = [resp EXCEPT ![t] = None]
  /\ reqs' = [reqs EXCEPT ![t] = 0]
  /\ obs' = [obs EXCEPT ![t] = None]
  /\ seen' = [seen EXCEPT ![t] = cache]
  /\ ret' = [ret EXCEPT ![t] = None]
  /\ IF rt.op = "valid" /\ rt.model = <<>>
     THEN /\ out' = [out EXCEPT ![t] = Some(FALSE)]
          /\ pc' = [pc EXCEPT ![t] = "done"]
          /\ now' = [now EXCEPT ![t] = 0]
     ELSE /\ out' = [out EXCEPT ![t] = None]
          /\ pc' = [pc EXCEPT ![t] = "L235"]
          /\ now' = [now EXCEPT ![t] = clock]
  /\ UNCHANGED <<clock, cache, origin, fetched>>

\* ------------------------------------------------------------------------
\* _fetch_tree, one shared access or one blocking call per step
\* ------------------------------------------------------------------------

\* Line 235, left operand: _cache["data"] is tested.
ReadData(t) ==
  /\ pc[t] = "L235"
  /\ pc' = [pc EXCEPT ![t] =
              IF Truthy(cache.data) THEN "L235ts" ELSE "L243"]
  /\ UNCHANGED <<clock, cache, route, now, resp, ret, out, reqs, seen, obs,
                 origin, fetched>>

\* Mutant of Fresh: the window is one tick too short.
FreshTooShort(n, timestamp) == n - timestamp < CACHE_TTL - 1

\* Mutant of Fresh: a snapshot of age ttl still counts as fresh.
FreshInclusive(n, timestamp) == n - timestamp <= CACHE_TTL

\* now - timestamp < CACHE_TTL
Fresh(n, timestamp) == n - timestamp < CACHE_TTL

\* Line 235, right operand: _cache["timestamp"] is read and compared.
ReadTimestamp(t) ==
  /\ pc[t] = "L235ts"
  /\ pc' = [pc EXCEPT ![t] =
              IF Fresh(now[t], cache.timestamp) THEN "L236" ELSE "L243"]
  /\ obs' = [obs EXCEPT ![t] =
               Some([timestamp |-> cache.timestamp, origin |-> -1])]
  /\ UNCHANGED <<clock, cache, route, now, resp, ret, out, reqs, seen,
                 origin, fetched>>

\* Line 236: _cache["data"] is read again and returned.
ReturnCached(t) ==
  /\ pc[t] = "L236"
  /\ Return(t, Result(cache.data, TRUE, None))
  /\ obs' = [obs EXCEPT ![t] = Some([obs[t][1] EXCEPT !.origin = origin])]
  /\ UNCHANGED <<clock, cache, route, now, resp, reqs, seen, origin, fetched>>

\* Mutant of AfterRequest: the status is not tested before the cache is
\* written.
AfterRequestAnyStatus(response) ==
  IF response.status = 0 THEN "raised" ELSE "L250"

\* Mutant of AfterRequest: a request answered with a failure status is
\* issued again.
AfterRequestRetry(response) ==
  IF response.status = 0 THEN "raised"
  ELSE IF response.status # 200 THEN "L243"
  ELSE "L250"

\* Where _fetch_tree goes after requests.get answered with response:
\* requests.get raises on a transport failure, line 244 tests the status.
AfterRequest(response) ==
  IF response.status = 0 THEN "raised"
  ELSE IF response.status # 200 THEN "L245"
  ELSE "L250"

\* Line 243: the upstream request, answered by the upstream as it pleases.
Request(t, response) ==
  /\ pc[t] = "L243"
  /\ reqs' = [reqs EXCEPT ![t] = @ + 1]
  /\ resp' = [resp EXCEPT ![t] = Some(response)]
  /\ pc' = [pc EXCEPT ![t] = AfterRequest(response)]
  /\ obs' = [obs EXCEPT ![t] = None]
  /\ fetched' = IF response.status = 200 THEN Some(response.tree) ELSE fetched
  /\ UNCHANGED <<clock, cache, route, now, ret, out, seen, origin>>

\* Mutant of UseStale: the stale snapshot is served whatever the flag.
UseStaleWhateverFlag(fallback_to_cache, data) == Truthy(data)

\* Mutant of UseStale: an empty listing is a snapshot to fall back on.
UseStaleAnyListing(fallback_to_cache, data) ==
  fallback_to_cache /\ data # None

\* fallback_to_cache and _cache["data"]
UseStale(fallback_to_cache, data) == fallback_to_cache /\ Truthy(data)

\* The tuple of line 247.
ErrorResult(response) ==
  Result(None, FALSE,
         Some([status |-> response.status, detail |-> response.detail]))

\* Line 245: the status was not 200.
CheckFallback(t) ==
  /\ pc[t] = "L245"
  /\ IF UseStale(FallbackToCache(route[t]), cache.data)
     THEN /\ pc' = [pc EXCEPT ![t] = "L246"]
          /\ UNCHANGED <<ret, out>>
     ELSE Return(t, ErrorResult(resp[t][1]))
  /\ UNCHANGED <<clock, cache, route, now, resp, reqs, seen, obs, origin,
                 fetched>>

\* Mutant of ReturnStale: serving the stale snapshot renews its timestamp.
ReturnStaleTouch(t) ==
  /\ pc[t] = "L246"
  /\ Return(t, Result(cache.data, TRUE, None))
  /\ cache' = [cache EXCEPT !.timestamp = now[t]]
  /\ UNCHANGED <<clock, route, now, resp, reqs, seen, obs, origin, fetched>>

\* Line 246: _cache["data"] is read again and returned.
ReturnStale(t) ==
  /\ pc[t] = "L246"
  /\ Return(t, Result(cache.data, TRUE, None))
  /\ UNCHANGED <<clock, cache, route, now, resp, reqs, seen, obs, origin,
                 fetched>>

\* Mutant of StoreTimestamp: the clock is read again when the answer is in.
StoreTimestampOnArrival(t) ==
  /\ pc[t] = "L250"
  /\ cache' = [cache EXCEPT !.timestamp = clock]
  /\ pc' = [pc EXCEPT ![t] = "L251"]
  /\ UNCHANGED <<clock, route, now, resp, ret, out, reqs, seen, obs, origin,
                 fetched>>

\* Line 250: _cache["timestamp"] = now
StoreTimestamp(t) ==
  /\ pc[t] = "L250"
  /\ cache' = [cache EXCEPT !.timestamp = now[t]]
  /\ pc' = [pc EXCEPT ![t] = "L251"]
  /\ UNCHANGED <<clock, route, now, resp, ret, out, reqs, seen, obs, origin,
                 fetched>>

\* Lines 251 and 252: _cache["data"] = tree; return tree, False, None
StoreData(t) ==
  /\ pc[t] = "L251"
  /\ cache' = [cache EXCEPT !.data = Some(resp[t][1].tree)]
  /\ origin' = now[t]
  /\ Return(t, Result(Some(resp[t][1].tree), FALSE, None))
  /\ UNCHANGED <<clock, route, now, resp, reqs, seen, obs, fetched>>

\* Time passes.
Tick ==
  /\ clock < MaxTime
  /\ clock' = clock + 1
  /\ UNCHANGED <<cache, pc, route, now, resp, ret, out, reqs, seen, obs,
                 origin, fetched>>

\* One step of the server: threads Th serve routes Rts, and the upstream
\* answers with one of Rsp.
NextOf(Th, Rts, Rsp) ==
  \/ \E t \in Th, rt \in Rts : Call(t, rt) /\ UNCHANGED indexVars
  \/ \E t \in Th : ReadData(t) /\ UNCHANGED indexVars
  \/ \E t \in Th : ReadTimestamp(t) /\ UNCHANGED indexVars
  \/ \E t \in Th : ReturnCached(t) /\ UNCHANGED indexVars
  \/ \E t \in Th, response \in Rsp : Request(t, response) /\ UNCHANGED indexVars
  \/ \E t \in Th : CheckFallback(t) /\ UNCHANGED indexVars
  \/ \E t \in Th : ReturnStale(t) /\ UNCHANGED indexVars
  \/ \E t \in Th : StoreTimestamp(t) /\ UNCHANGED indexVars
  \/ \E t \in Th : StoreData(t) /\ UNCHANGED indexVars
  \/ Tick /\ UNCHANGED indexVars

\* Requests served one at a time: every route, every answer of the upstream.
Next == NextOf({"t1"}, Routes, Responses)

Spec == Init /\ [][Next]_vars

\* Two requests served at once by two threads.
ConcRoutes == {rt \in Routes : rt.op \in {"models", "sitemap"}}

ConcResponses ==
  {rsp \in Responses :
     rsp.status \in {200, 403} /\ (rsp.status = 200 => rsp.tree # <<>>)}

ConcNext == NextOf(Threads, ConcRoutes, ConcResponses)

ConcSpec == Init /\ [][ConcNext]_vars

\* ------------------------------------------------------------------------
\* The pure functions on their own, on every short tree over SampleEntries
\* ------------------------------------------------------------------------

\* The longest tree handed to the pure functions.
MaxEntries == 3

XHtml == <<"x">> \o HtmlExt

SampleEntries ==
  {Blob(PathA1),                                          \* A/1/gen/x.html
   Blob(<<"A", "/", "2">> \o GenDir \o XHtml),            \* A/2/gen/x.html
   Blob(<<"B", "/", "1">> \o GenDir \o <<"a", "/">> \o XHtml),
                                                          \* B/1/gen/a/x.html
   Blob(PathPng),                                         \* B/2/gen/d.png
   Blob(<<"A", "/", "1", "/", "G", "e", "n", "/">> \o XHtml),
                                                          \* A/1/Gen/x.html
   Blob(<<"A">> \o GenDir \o XHtml),                      \* A/gen/x.html
   Blob(<<"A", "/", "1", "/", "x">> \o GenDir \o XHtml),  \* A/1/x/gen/x.html
   Blob(<<"A", "/", "1">> \o GenDir),                     \* A/1/gen/
   [type |-> "tree", path |-> <<"B", "/", "9">> \o GenDir \o XHtml],
                                                          \* B/9/gen/x.html
   Blob(<<"a", " ", "b", "/", "1">> \o GenDir \o HtmlExt)}
                                                          \* "a b/1/gen/.html"

SeqsUpTo(S, n) == UNION {[1..k -> S] : k \in 0..n}

InitIndex ==
  /\ InitCache
  /\ input \in SeqsUpTo(SampleEntries, MaxEntries)
  /\ index = None
  /\ urls = None

\* Mutant of BuildIndex: the loop consumes the list it is handed.
BuildIndexConsuming ==
  /\ index' = Some(BuildModelVersions(input))
  /\ input' = IF input = <<>> THEN input ELSE Tail(input)
  /\ UNCHANGED urls

\* _build_model_versions(input), which may be called again and again: it
\* reads its argument and builds a new dict.
BuildIndex ==
  /\ index' = Some(BuildModelVersions(input))
  /\ UNCHANGED <<input, urls>>

\* The urls of sitemap() when _fetch_tree returned input.
ListPaths ==
  /\ urls = None
  /\ urls' = Some(SitemapUrls(Some(input)))
  /\ UNCHANGED <<input, index>>

IndexNext ==
  \/ BuildIndex /\ UNCHANGED cacheVars
  \/ ListPaths /\ UNCHANGED cacheVars

IndexSpec == InitIndex /\ [][IndexNext]_vars

\* ------------------------------------------------------------------------
\* Properties
\*
\* The contract of one call (C1-C4, C6-C8) is stated under Spec, where the
\* requests are served one after the other; what concurrent calls see (C5)
\* under ConcSpec; the pure functions (C9, C10) under IndexSpec.
\* ------------------------------------------------------------------------

\* Thread t's request has called _fetch_tree.
Entered(t) ==
  /\ route[t].op # "none"
  /\ ~(route[t].op = "valid" /\ route[t].model = <<>>)

\* _fetch_tree has returned a tuple to thread t's route.
Returned(t) == Entered(t) /\ pc[t] = "done"

\* Thread t's call of _fetch_tree is over: it returned or it raised.
Ended(t) == Entered(t) /\ pc[t] \in {"done", "raised"}

\* The cache held a non-empty snapshot, no longer fresh, when t's call began.
SawStale(t) ==
  /\ Truthy(seen[t].data)
  /\ now[t] - seen[t].timestamp >= CACHE_TTL

\* The upstream answered t's request with a status other than 200.
StatusFailed(t) == resp[t] # None /\ resp[t][1].status \notin {0, 200}

\* C1 (stale fallback).  A call that found a non-empty snapshot that was no
\* longer fresh, and whose upstream request was answered with a failure
\* status, returns the snapshot with cached = TRUE and no error when
\* fallback was asked for, and (None, FALSE, (status, detail)) when not.
StaleFallback ==
  \A t \in Threads :
    (Ended(t) /\ SawStale(t) /\ StatusFailed(t)) =>
      /\ pc[t] = "done"
      /\ ret[t][1] =
           IF route[t].op \in {"sitemap", "valid"}
           THEN [tree |-> seen[t].data, cached |-> TRUE, error |-> None]
           ELSE [tree |-> None, cached |-> FALSE,
                 error |-> Some([status |-> resp[t][1].status,
                                 detail |-> resp[t][1].detail])]

\* C1 witness: a stale snapshot was served after a failure status.
StaleFallbackWitness ==
  \E t \in Threads :
    /\ Returned(t) /\ SawStale(t) /\ StatusFailed(t)
    /\ route[t].op = "sitemap"
    /\ ret[t][1].cached /\ Truthy(ret[t][1].tree)

\* C2 as stated (freshness, whatever the fetch returned).  Once a fetch has
\* succeeded (data is no longer None) and been recorded at timestamp, a call
\* begun at now with now - timestamp < ttl never gets to issue a request, and
\* returns the stored entries with cached = TRUE and no error.
FreshnessAnyEntries ==
  \A t \in Threads :
    (Entered(t) /\ seen[t].data # None
       /\ now[t] - seen[t].timestamp < CACHE_TTL) =>
      /\ reqs[t] = 0 /\ pc[t] \notin {"L243", "raised"}
      /\ pc[t] = "done" =>
           ret[t][1] = [tree |-> seen[t].data, cached |-> TRUE,
                        error |-> None]

\* C2 amended (freshness of a non-empty snapshot).  The same, for a fetch
\* that returned at least one entry.
Freshness ==
  \A t \in Threads :
    (Entered(t) /\ Truthy(seen[t].data)
       /\ now[t] - seen[t].timestamp < CACHE_TTL) =>
      /\ reqs[t] = 0 /\ pc[t] \notin {"L243", "raised"}
      /\ pc[t] = "done" =>
           ret[t][1] = [tree |-> seen[t].data, cached |-> TRUE,
                        error |-> None]

\* C2 witness: a call one tick after the fetch it is served from.
FreshnessWitness ==
  \E t \in Threads :
    /\ Returned(t) /\ Truthy(seen[t].data)
    /\ now[t] - seen[t].timestamp = CACHE_TTL - 1
    /\ ret[t][1].cached /\ reqs[t] = 0

\* C3 (expiry triggers refresh).  A call that began with the cache never
\* filled, or with now - timestamp >= ttl, has issued an upstream request
\* when it ends, whatever its fallback flag and whatever snapshot there was;
\* when the upstream answered 200 it returns the fetched tree with
\* cached = FALSE and no error.
ExpiryRefresh ==
  \A t \in Threads :
    (Ended(t) /\ (seen[t].data = None
                    \/ now[t] - seen[t].timestamp >= CACHE_TTL)) =>
      /\ reqs[t] = 1
      /\ resp[t][1].status = 200 =>
           /\ pc[t] = "done"
           /\ ret[t][1] = [tree |-> Some(resp[t][1].tree), cached |-> FALSE,
                            error |-> None]

\* C3 witness: an expired non-empty snapshot was replaced by a new fetch.
ExpiryRefreshWitness ==
  \E t \in Threads :
    /\ Returned(t) /\ SawStale(t)
    /\ now[t] - seen[t].timestamp = CACHE_TTL
    /\ resp[t][1].status = 200 /\ ~ret[t][1].cached
    /\ ret[t][1].tree # seen[t].data

\* C4 (cache slot).  Between calls the cached entries are None, as at the
\* start, or the tree of the latest 200 response; and a call whose request
\* failed, by status or in transport, with or without fallback, leaves
\* timestamp and data as it found them.
CacheSlot ==
  /\ (\A t \in Threads : Idle(t)) => cache.data = fetched
  /\ \A t \in Threads :
       (Ended(t) /\ resp[t] # None /\ resp[t][1].status # 200) =>
         cache = seen[t]

\* C4 witness: a failed refresh left a non-empty snapshot in place.
CacheSlotWitness ==
  \E t \in Threads :
    /\ Returned(t) /\ StatusFailed(t)
    /\ Truthy(cache.data) /\ cache = seen[t] /\ cache.data = fetched
    /\ \A u \in Threads : Idle(u)

\* C5 as stated (atomic snapshot visibility).  A call that took the fast
\* path read a timestamp and entries stored by the same fetch, and the
\* entries it returns as fresh are within ttl of the fetch that stored them.
AtomicSnapshot ==
  \A t \in Threads :
    (Returned(t) /\ obs[t] # None) =>
      /\ obs[t][1].timestamp = obs[t][1].origin
      /\ now[t] - obs[t][1].origin < CACHE_TTL

\* C6 as stated (transport failures).  When requests.get fails in transport,
\* the call still returns: the stale snapshot with no error under fallback
\* with a non-empty cache, a (status, detail) error otherwise; it does not
\* end in an exception, and the cache is unchanged.
TransportHandled ==
  \A t \in Threads :
    (Ended(t) /\ resp[t] # None /\ resp[t][1].status = 0) =>
      /\ pc[t] = "done"
      /\ cache = seen[t]
      /\ IF route[t].op # "models" /\ Truthy(seen[t].data)
         THEN ret[t][1] = [tree |-> seen[t].data, cached |-> TRUE,
                           error |-> None]
         ELSE ret[t][1].tree = None /\ ret[t][1].error # None

\* C7 as stated (fail-open validator).  With the cache never filled and the
\* upstream request failed, by status or in transport, the validator
\* returns True for every non-empty model, with or without a version.
FailOpenValidator ==
  \A t \in Threads :
    (Ended(t) /\ route[t].op = "valid" /\ seen[t].data = None
       /\ resp[t] # None /\ resp[t][1].status # 200) =>
      pc[t] = "done" /\ out[t] = Some(TRUE)

\* C8 (validator correctness).  When _fetch_tree hands the validator a
\* non-empty tree T, fresh, refreshed or stale, the answer for a non-empty
\* model is True exactly when model is a key of the index of T and the
\* version, if given, is in the model's set.
ValidatorCorrect ==
  \A t \in Threads :
    (Returned(t) /\ route[t].op = "valid" /\ Truthy(ret[t][1].tree)) =>
      LET idx == BuildModelVersions(ret[t][1].tree[1])
      IN  out[t][1] =
            (/\ route[t].model \in DOMAIN idx
             /\ route[t].version # None =>
                  route[t].version[1] \in idx[route[t].model])

\* C8 witness: a version of a known model, looked up and not found in a
\* stale tree.
ValidatorCorrectWitness ==
  \E t \in Threads :
    /\ Returned(t) /\ route[t].op = "valid" /\ StatusFailed(t)
    /\ Truthy(ret[t][1].tree)
    /\ route[t].model \in DOMAIN BuildModelVersions(ret[t][1].tree[1])
    /\ route[t].version # None
    /\ out[t] = Some(FALSE)

\* C9 (index derivation).  (model, version) is in the index of input exactly
\* when input has a blob whose path splits on "/" into at least four
\* segments, the first model, the second version, the third "gen", the
\* last ending in ".html"; and no key has an empty set.
IndexDerivation ==
  index # None =>
    LET idx == index[1]
        Segs(i) == Split(input[i].path)
        Hit(i, m, v) ==
          /\ input[i].type = "blob"
          /\ Len(Segs(i)) >= 4
          /\ Segs(i)[1] = m
          /\ Segs(i)[2] = v
          /\ Segs(i)[3] = <<"g", "e", "n">>
          /\ EndsWith(Segs(i)[Len(Segs(i))], <<".", "h", "t", "m", "l">>)
        Names == {Segs(i)[1] : i \in 1..Len(input)} \cup DOMAIN idx
        Versions ==
          {Segs(i)[2] : i \in {j \in 1..Len(input) : Len(Segs(j)) >= 2}}
            \cup UNION {idx[m] : m \in DOMAIN idx}
    IN  /\ \A m \in Names, v \in Versions :
             (m \in DOMAIN idx /\ v \in idx[m])
               <=> \E i \in 1..Len(input) : Hit(i, m, v)
        /\ \A m \in DOMAIN idx : idx[m] # {}

\* C9 witness: the same pair twice, and a path with /gen/ in the wrong place.
IndexDerivationWitness ==
  /\ index # None
  /\ Len(input) = 3
  /\ input[1] = Blob(PathA1) /\ input[2] = Blob(PathA1)
  /\ input[3] = Blob(<<"A", "/", "1", "/", "x">> \o GenDir \o XHtml)
  /\ DOMAIN index[1] = {<<"A">>}
  /\ index[1][<<"A">>] = {<<"1">>}

\* C10 (sitemap ordering).  The urls are "/", "/diff", then for each model
\* of the index in ascending order its model url, followed at once by one
\* url per version in ascending order, and nothing else; exchanging two
\* entries of the tree gives the same urls (and so does every reordering,
\* the property being checked on every tree).
SitemapOrdering ==
  urls # None =>
    LET u == urls[1]
        idx == BuildModelVersions(input)
        Pairs(M) == UNION {{<<m, v>> : v \in idx[m]} : m \in M}
        Before(m) == {x \in DOMAIN idx : StrLess(x, m)}
        Pos(m) == 3 + Cardinality(Before(m)) + Cardinality(Pairs(Before(m)))
        Rank(m, v) == Cardinality({w \in idx[m] : StrLess(w, v)})
        n == Len(input)
        Exchanged(i, j) ==
          [k \in 1..n |->
             IF k = i THEN input[j] ELSE IF k = j THEN input[i] ELSE input[k]]
    IN  /\ Len(u) = 2 + Cardinality(DOMAIN idx) + Cardinality(Pairs(DOMAIN idx))
        /\ u[1] = <<"/">>
        /\ u[2] = <<"/", "d", "i", "f", "f">>
        /\ \A m \in DOMAIN idx :
             /\ u[Pos(m)] = ModelsPrefix \o quote(m)
             /\ \A v \in idx[m] :
                  u[Pos(m) + 1 + Rank(m, v)] =
                    ModelsPrefix \o quote(m) \o VersionsInfix \o quote(v)
        /\ \A i, j \in 1..n : SitemapUrls(Some(Exchanged(i, j))) = u

\* C10 witness: model B listed before model A, whose version 2 is listed
\* before its version 1.
SitemapOrderingWitness ==
  /\ urls # None
  /\ Len(input) = 3
  /\ Split(input[1].path)[1] = <<"B">>
  /\ Split(input[2].path)[2] = <<"2">>
  /\ Len(urls[1]) = 7

\* C11 as stated (sitemap degradation).  When the upstream request of the
\* sitemap fails, by status or in transport, the sitemap still answers: with
\* "/" and "/diff" alone when the cache was empty, with the urls of the
\* stale snapshot when there was one.
SitemapDegrades ==
  \A t \in Threads :
    (Ended(t) /\ route[t].op = "sitemap"
       /\ resp[t] # None /\ resp[t][1].status # 200) =>
      /\ pc[t] = "done"
      /\ out[t][1] =
           IF Truthy(seen[t].data)
           THEN SitemapUrls(seen[t].data)
           ELSE <<(<<"/">>), (<<"/", "d", "i", "f", "f">>)>>

\* C12 (the JSON API mirrors the failure).  When the request made for
\* /api/models is answered with a status s other than 200, the route answers
\* with HTTP status s and a body carrying s and the upstream detail, and
\* no tree, whatever snapshot the cache held.
ApiMirrorsFailure ==
  \A t \in Threads :
    (Ended(t) /\ route[t].op = "models" /\ StatusFailed(t)) =>
      /\ pc[t] = "done"
      /\ ret[t][1].tree = None /\ ~ret[t][1].cached
      /\ out[t][1] =
           [status |-> resp[t][1].status,
            body |-> [error |-> "GitHub API request failed",
                      status |-> resp[t][1].status,
                      detail |-> resp[t][1].detail]]

\* C12 witness: a stale non-empty snapshot was there and was not served.
ApiMirrorsFailureWitness ==
  \E t \in Threads :
    /\ Returned(t) /\ route[t].op = "models"
    /\ SawStale(t) /\ StatusFailed(t)
    /\ cache = seen[t]
    /\ out[t][1].status = 500

Refreshed(t) ==
  /\ Returned(t)
  /\ resp[t] # None /\ resp[t][1].status = 200

\* C14 as stated (concurrent refreshes, last writer wins).  When two calls
\* that began on the same cache state have both gone to the upstream and
\* both stored a 200 answer, each issued its own request, and the slot holds
\* the entries and the timestamp of one and the same of the two calls.
LastWriterWins ==
  \A t, u \in Threads :
    (t # u /\ Refreshed(t) /\ Refreshed(u) /\ seen[t] = seen[u]) =>
      /\ reqs[t] = 1 /\ reqs[u] = 1
      /\ \E w \in {t, u} :
           cache = [timestamp |-> now[w], data |-> Some(resp[w][1].tree)]

\* C15 (lazy, one-shot refresh).  A thread gets to the request line only from
\* line 235 of its own call, having read there entries that are None or
\* empty, or a timestamp at least ttl before the start of the call; a request
\* is issued only by a thread standing at the request line that has issued
\* none yet in this call; no other step, the passing of time included,
\* issues one.
LazyOneShot ==
  [][\A t \in Threads :
       /\ (pc'[t] = "L243" /\ pc[t] # "L243") =>
            /\ Entered(t)
            /\ \/ pc[t] = "L235" /\ ~Truthy(cache.data)
               \/ /\ pc[t] = "L235ts"
                  /\ now[t] - cache.timestamp >= CACHE_TTL
       /\ (reqs'[t] # reqs[t] \/ resp'[t] # resp[t]) =>
            \/ /\ pc[t] = "L243" /\ reqs[t] = 0 /\ reqs'[t] = 1
               /\ pc'[t] # "L243"
            \/ Idle(t) /\ reqs'[t] = 0 /\ resp'[t] = None]_vars

\* C15 witness: a call that found an expired snapshot has issued its one
\* request, got a failure status and returned the error without another.
LazyOneShotWitness ==
  \E t \in Threads :
    /\ Returned(t) /\ route[t].op = "models"
    /\ SawStale(t) /\ StatusFailed(t)
    /\ reqs[t] = 1 /\ ret[t][1].error # None

\* C16 (empty model).  _is_valid_model_version with no model or an empty one
\* answers False whatever the cache holds and whatever the version, without
\* calling _fetch_tree: no request is issued, no answer of the upstream is
\* awaited, and the cache slot is as it was when the call began.
EmptyModelInvalid ==
  \A t \in Threads :
    (route[t].op = "valid" /\ route[t].model = <<>>) =>
      /\ pc[t] = "done"
      /\ out[t] = Some(FALSE)
      /\ reqs[t] = 0 /\ resp[t] = None /\ ret[t] = None
      /\ cache = seen[t]

\* C16 witness: the validator has answered False for an empty model and a
\* version, while the cache held an empty listing, where every non-empty
\* model is let through.
EmptyModelInvalidWitness ==
  \E t \in Threads :
    /\ route[t].op = "valid" /\ route[t].model = <<>>
    /\ route[t].version # None
    /\ cache.data = Some(<<>>)
    /\ out[t] = Some(FALSE)

\* The request of thread t's call did not bring a 200 answer, or the call
\* was served from the cache.
NotRefreshed(t) ==
  \/ resp[t] # None /\ resp[t][1].status # 200
  \/ pc[t] = "done" /\ ret[t][1].cached

\* C17 as stated (no negative caching, whatever the fetch returned).  A call
\* that served the snapshot, fresh or stale, or ended in an error leaves the
\* slot, timestamp included, as it found it; so a call that finds the
\* snapshot expired issues a request, each time, as long as none succeeds;
\* and once a fetch has succeeded (data is no longer None) a call begun
\* within ttl of its timestamp is over without a request, served from the
\* cache.
NoNegativeCachingAnyEntries ==
  \A t \in Threads :
    Ended(t) =>
      /\ NotRefreshed(t) => cache = seen[t]
      /\ SawStale(t) => reqs[t] = 1
      /\ (pc[t] = "done" /\ seen[t].data # None
            /\ now[t] - seen[t].timestamp < CACHE_TTL) =>
           /\ reqs[t] = 0 /\ cache = seen[t]
           /\ ret[t][1] = [tree |-> cache.data, cached |-> TRUE,
                            error |-> None]

\* C17 amended (no negative caching, non-empty snapshots).  The same, where
\* the fetch that succeeded returned at least one entry.
NoNegativeCaching ==
  \A t \in Threads :
    Ended(t) =>
      /\ NotRefreshed(t) => cache = seen[t]
      /\ SawStale(t) => reqs[t] = 1
      /\ (pc[t] = "done" /\ Truthy(seen[t].data)
            /\ now[t] - seen[t].timestamp < CACHE_TTL) =>
           /\ reqs[t] = 0 /\ cache = seen[t]
           /\ ret[t][1] = [tree |-> cache.data, cached |-> TRUE,
                            error |-> None]

\* C17 witness: the validator was let through on a stale snapshot after a
\* failed request, more than ttl after the snapshot was fetched, and the
\* timestamp is still that of the fetch.
NoNegativeCachingWitness ==
  \E t \in Threads :
    /\ Returned(t) /\ route[t].op = "valid"
    /\ SawStale(t) /\ StatusFailed(t)
    /\ ret[t][1].cached /\ reqs[t] = 1
    /\ cache.timestamp = seen[t].timestamp
    /\ cache.data = fetched

\* C18 (an empty listing counts as no cache).  A 200 answer with an empty
\* tree is stored over whatever snapshot there was; and a call that finds the
\* empty listing in the cache issues a request, within ttl too, returns the
\* error, not the listing, when that request is answered with a failure
\* status and fallback was asked for, and makes the validator answer True
\* for a non-empty model when the request is answered with a failure status
\* or with an empty listing again.
EmptyListingCountsAsEmpty ==
  \A t \in Threads :
    Ended(t) =>
      /\ (resp[t] # None /\ resp[t][1].status = 200
            /\ resp[t][1].tree = <<>>) =>
           /\ pc[t] = "done"
           /\ cache = [timestamp |-> now[t], data |-> Some(<<>>)]
      /\ seen[t].data = Some(<<>>) =>
           /\ reqs[t] = 1
           /\ (StatusFailed(t) /\ FallbackToCache(route[t])) =>
                /\ pc[t] = "done"
                /\ ret[t][1] = ErrorResult(resp[t][1])
           /\ (route[t].op = "valid"
                 /\ (StatusFailed(t)
                       \/ (resp[t][1].status = 200
                             /\ resp[t][1].tree = <<>>))) =>
                /\ pc[t] = "done"
                /\ out[t] = Some(TRUE)

\* C18 witness: within ttl of a fetch that stored an empty listing over a
\* cache never filled, the validator asked about a model and a version has
\* issued a request, got a failure status and answered True.
EmptyListingCountsAsEmptyWitness ==
  \E t \in Threads :
    /\ Returned(t) /\ route[t].op = "valid" /\ route[t].version # None
    /\ seen[t].data = Some(<<>>)
    /\ now[t] - seen[t].timestamp < CACHE_TTL
    /\ StatusFailed(t) /\ reqs[t] = 1
    /\ ret[t][1].error # None
    /\ out[t] = Some(TRUE)
\* C19 (the timestamp is the time the call began).  The timestamp a
\* refreshing call stores is the clock value it read on entry, however long
\* the request took; so the timestamp in the slot is never later than the
\* clock, and with calls served one at a time a non-empty snapshot is served
\* without a request exactly by the calls that begin less than ttl after the
\* beginning of the call that fetched it.
TimestampIsCallStart ==
  /\ cache.timestamp <= clock
  /\ \A t \in Threads :
       /\ (pc[t] \in {"L251", "done"} /\ resp[t] # None
             /\ resp[t][1].status = 200) =>
            cache.timestamp = now[t] /\ now[t] <= clock
       /\ Refreshed(t) => origin = now[t]
       /\ (Ended(t) /\ Truthy(seen[t].data) /\ reqs[t] = 0) =>
            /\ seen[t].timestamp = origin
            /\ now[t] < origin + CACHE_TTL
       /\ (Ended(t) /\ Truthy(seen[t].data) /\ reqs[t] = 1) =>
            now[t] >= seen[t].timestamp + CACHE_TTL

\* C19 witness: the answer of the upstream came in a tick after the call
\* began, and the timestamp just stored is that of the beginning.
TimestampIsCallStartWitness ==
  \E t \in Threads :
    /\ pc[t] = "L251" /\ resp[t][1].status = 200
    /\ now[t] < clock
    /\ cache.timestamp = now[t]

=============================================================================
